---- MODULE Spec2Model ----
(***************************************************************************)
(* The FFmpeg process supervisor of main.py: startup_event, the launcher   *)
(* start_ffmpeg_process, the background loop monitor_ffmpeg_processes and  *)
(* the /health route, together with the environment they observe (the      *)
(* ffmpeg subprocesses, the HLS directories and the clock).                *)
(***************************************************************************)
EXTENDS Integers, FiniteSets, Sequences, TLC

\* settings.TOTAL_CAMERAS: the configured number of feeds.
TOTAL_CAMERAS == 2

\* main.py:18
STALE_THRESHOLD_SECONDS == 30

\* The grace period of spec section 4.1 ("a few seconds"), in seconds.
GracePeriod == 5

Feeds == 1..TOTAL_CAMERAS

\* The two threads that run start_ffmpeg_process.
Threads == {"startup", "monitor"}

\* Handles: 0 is "no entry" (dict.get returns None); 1 and 2 name Popen
\* objects of one feed. A new Popen object differs from the one it replaces.
NoHandle == 0
Handles == {1, 2}

\* The index file stream.m3u8 of a feed is absent, or has an age now - mtime.
\* Ages beyond the threshold are all alike to the code, so the age saturates.
Absent == -1
AgeCap == STALE_THRESHOLD_SECONDS + 1

\* The ages the model gives a file: just written, one second short of the
\* threshold, at the threshold, and beyond it.
AgePoints == {0, STALE_THRESHOLD_SECONDS - 1, STALE_THRESHOLD_SECONDS, AgeCap}

Min(a, b) == IF a < b THEN a ELSE b

VARIABLES
    ffmpegInstalled,   \* shutil.which("ffmpeg") finds the engine
    baseDir,           \* the directory hls exists
    camDirs,           \* the feeds whose directory hls/cam<i> exists
    idx,               \* per feed: Absent, or the age of hls/cam<i>/stream.m3u8
    mounted,           \* app.mount("/hls", ...) was done
    reg,               \* ffmpeg_processes: feed -> handle, NoHandle if no key
    alive,             \* per feed: the handles whose subprocess has not exited
    pc,                \* per thread: its position in the code
    cam,               \* per thread: the loop variable i / cam_id
    newp,              \* per thread: the local `process` between Popen and the dict write
    waited,            \* seconds the launcher has been blocked in wait()
    launchFailed,      \* the feeds whose last launch raised in Popen
    monLog,            \* what the monitor logged at its last check
    hcPc, hcIdx, hcCount   \* the /health handler: position, next key, len so far

vars == <<ffmpegInstalled, baseDir, camDirs, idx, mounted, reg, alive, pc, cam,
          newp, waited, launchFailed, monLog,
          hcPc, hcIdx, hcCount>>

fsVars == <<baseDir, camDirs, idx, mounted>>
hcVars == <<hcPc, hcIdx, hcCount>>

\* p.poll() is None
Live(f, h) == h # NoHandle /\ h \in alive[f]

\* The number of live subprocesses of feed f, whoever holds their handle.
LiveCount(f) == Cardinality(alive[f])

Init ==
    /\ ffmpegInstalled \in BOOLEAN
    /\ \E prior \in BOOLEAN :
          /\ baseDir = prior
          /\ camDirs = IF prior THEN Feeds ELSE {}
          /\ idx = [f \in Feeds |-> IF prior THEN AgeCap ELSE Absent]
    /\ mounted = FALSE
    /\ reg = [f \in Feeds |-> NoHandle]
    /\ alive = [f \in Feeds |-> {}]
    /\ pc = [t \in Threads |-> IF t = "startup" THEN "check_ffmpeg" ELSE "notstarted"]
    /\ cam = [t \in Threads |-> 0]
    /\ newp = [t \in Threads |-> NoHandle]
    /\ waited = 0
    /\ launchFailed = {}
    /\ monLog = "none"
    /\ hcPc = "idle"
    /\ hcIdx = 0
    /\ hcCount = 0

----------------------------------------------------------------------------
\* start_ffmpeg_process(cam_id), run by thread t with cam_id = cam[t]

\* Where thread t continues when start_ffmpeg_process returns: startup_event
\* at its for loop (line 89), the monitor at the next cam_id of its for loop
\* (line 57), or in the sleep of line 55 when the loop is over.
ReturnPc(t) ==
    IF t = "startup" THEN "launch_loop"
    ELSE IF cam[t] < TOTAL_CAMERAS THEN "check" ELSE "sleep"

ReturnCam(t) ==
    IF t = "startup" THEN cam[t]
    ELSE IF cam[t] < TOTAL_CAMERAS THEN cam[t] + 1 ELSE 0

\* Where thread t ends when an exception leaves start_ffmpeg_process: neither
\* startup_event nor monitor_ffmpeg_processes catches it.
RaisedPc(t) == IF t = "startup" THEN "aborted" ELSE "crashed"

\* LauncherEnter without the test of line 27: kill() and wait() are called
\* whatever the state of the previous handle.
LauncherEnter_AlwaysKills(t) ==
    /\ pc[t] = "L_enter"
    /\ pc' = [pc EXCEPT ![t] = "L_wait"]
    /\ waited' = 0
    /\ UNCHANGED <<ffmpegInstalled, fsVars, reg, alive, cam, newp,
                   launchFailed, monLog, hcVars>>

\* lines 27-29: if the feed has an entry whose poll() is None, kill() it.
\* kill() sends SIGKILL and returns; the process exits on its own time.
LauncherEnter(t) ==
    /\ pc[t] = "L_enter"
    /\ pc' = [pc EXCEPT ![t] = IF Live(cam[t], reg[cam[t]]) THEN "L_wait" ELSE "L_popen"]
    /\ waited' = 0
    /\ UNCHANGED <<ffmpegInstalled, fsVars, reg, alive, cam, newp,
                   launchFailed, monLog, hcVars>>

\* LauncherWait with the wait() of line 30 left out: the launcher goes on to
\* Popen while the killed process may still be running.
LauncherWait_NoWait(t) ==
    /\ pc[t] = "L_wait"
    /\ pc' = [pc EXCEPT ![t] = "L_popen"]
    /\ waited' = 0
    /\ UNCHANGED <<ffmpegInstalled, fsVars, reg, alive, cam, newp,
                   launchFailed, monLog, hcVars>>

\* line 30: wait() has no timeout: it returns once the process has exited.
LauncherWait(t) ==
    /\ pc[t] = "L_wait"
    /\ ~Live(cam[t], reg[cam[t]])
    /\ pc' = [pc EXCEPT ![t] = "L_popen"]
    /\ waited' = 0
    /\ UNCHANGED <<ffmpegInstalled, fsVars, reg, alive, cam, newp,
                   launchFailed, monLog, hcVars>>

\* The Popen object created for feed f: not the one the registry holds.
FreshHandle(f) == IF reg[f] = 1 THEN 2 ELSE 1

\* lines 32-49: nothing is removed from the directory; Popen starts the
\* subprocess, or raises OSError when it cannot be spawned.
\* LauncherPopen removing the old index file before it spawns.
LauncherPopen_ClearsIndex(t) ==
    /\ pc[t] = "L_popen"
    /\ idx' = [idx EXCEPT ![cam[t]] = Absent]
    /\ \/ /\ alive' = [alive EXCEPT ![cam[t]] = @ \cup {FreshHandle(cam[t])}]
          /\ newp' = [newp EXCEPT ![t] = FreshHandle(cam[t])]
          /\ pc' = [pc EXCEPT ![t] = "L_install"]
          /\ launchFailed' = launchFailed \ {cam[t]}
       \/ /\ pc' = [pc EXCEPT ![t] = RaisedPc(t)]
          /\ launchFailed' = launchFailed \cup {cam[t]}
          /\ UNCHANGED <<alive, newp>>
    /\ UNCHANGED <<ffmpegInstalled, baseDir, camDirs, mounted, reg, cam, waited, monLog, hcVars>>

LauncherPopen(t) ==
    /\ pc[t] = "L_popen"
    /\ \/ /\ alive' = [alive EXCEPT ![cam[t]] = @ \cup {FreshHandle(cam[t])}]
          /\ newp' = [newp EXCEPT ![t] = FreshHandle(cam[t])]
          /\ pc' = [pc EXCEPT ![t] = "L_install"]
          /\ launchFailed' = launchFailed \ {cam[t]}
       \/ /\ pc' = [pc EXCEPT ![t] = RaisedPc(t)]
          /\ launchFailed' = launchFailed \cup {cam[t]}
          /\ UNCHANGED <<alive, newp>>
    /\ UNCHANGED <<ffmpegInstalled, fsVars, reg, cam, waited, monLog, hcVars>>

\* LauncherInstall writing under a wrong key: the new handle replaces the
\* entry of feed 1, whichever feed was launched.
LauncherInstall_WrongKey(t) ==
    /\ pc[t] = "L_install"
    /\ reg' = [reg EXCEPT ![1] = newp[t]]
    /\ newp' = [newp EXCEPT ![t] = NoHandle]
    /\ pc' = [pc EXCEPT ![t] = ReturnPc(t)]
    /\ cam' = [cam EXCEPT ![t] = ReturnCam(t)]
    /\ monLog' = "none"
    /\ UNCHANGED <<ffmpegInstalled, fsVars, alive, waited, launchFailed, hcVars>>

\* lines 50-51: ffmpeg_processes[cam_id] = process; return process
LauncherInstall(t) ==
    /\ pc[t] = "L_install"
    /\ reg' = [reg EXCEPT ![cam[t]] = newp[t]]
    /\ newp' = [newp EXCEPT ![t] = NoHandle]
    /\ pc' = [pc EXCEPT ![t] = ReturnPc(t)]
    /\ cam' = [cam EXCEPT ![t] = ReturnCam(t)]
    /\ monLog' = "none"
    /\ UNCHANGED <<ffmpegInstalled, fsVars, alive, waited, launchFailed, hcVars>>

Launcher(t) ==
    \/ LauncherEnter(t)
    \/ LauncherWait(t)
    \/ LauncherPopen(t)
    \/ LauncherInstall(t)

----------------------------------------------------------------------------
\* startup_event

\* CheckFfmpeg that logs the missing engine but does not raise.
CheckFfmpeg_NoRaise ==
    /\ pc["startup"] = "check_ffmpeg"
    /\ pc' = [pc EXCEPT !["startup"] = "rmtree"]
    /\ UNCHANGED <<ffmpegInstalled, fsVars, reg, alive, cam, newp, waited, launchFailed, monLog, hcVars>>

\* line 76 and check_ffmpeg, lines 20-24
CheckFfmpeg ==
    /\ pc["startup"] = "check_ffmpeg"
    /\ pc' = [pc EXCEPT !["startup"] = IF ffmpegInstalled THEN "rmtree" ELSE "aborted"]
    /\ UNCHANGED <<ffmpegInstalled, fsVars, reg, alive, cam, newp, waited, launchFailed, monLog, hcVars>>

\* line 80: if os.path.exists(HLS_BASE_DIR): shutil.rmtree(HLS_BASE_DIR)
StartupRmtree ==
    /\ pc["startup"] = "rmtree"
    /\ baseDir' = FALSE
    /\ camDirs' = {}
    /\ idx' = [f \in Feeds |-> Absent]
    /\ pc' = [pc EXCEPT !["startup"] = "makedirs"]
    /\ cam' = [cam EXCEPT !["startup"] = 1]
    /\ UNCHANGED <<ffmpegInstalled, mounted, reg, alive, newp, waited, launchFailed, monLog, hcVars>>

\* StartupMakedirs with range(1, TOTAL_CAMERAS): the directory of the last
\* feed is not created.
StartupMakedirs_SkipsLast ==
    /\ pc["startup"] = "makedirs"
    /\ IF cam["startup"] < TOTAL_CAMERAS
       THEN /\ baseDir' = TRUE
            /\ camDirs' = camDirs \cup {cam["startup"]}
            /\ cam' = [cam EXCEPT !["startup"] = @ + 1]
            /\ pc' = pc
       ELSE /\ pc' = [pc EXCEPT !["startup"] = "mount"]
            /\ UNCHANGED <<baseDir, camDirs, cam>>
    /\ UNCHANGED <<ffmpegInstalled, idx, mounted, reg, alive, newp, waited, launchFailed, monLog, hcVars>>

\* lines 81-82: one iteration of the makedirs loop, or its end
StartupMakedirs ==
    /\ pc["startup"] = "makedirs"
    /\ IF cam["startup"] <= TOTAL_CAMERAS
       THEN /\ baseDir' = TRUE
            /\ camDirs' = camDirs \cup {cam["startup"]}
            /\ cam' = [cam EXCEPT !["startup"] = @ + 1]
            /\ pc' = pc
       ELSE /\ pc' = [pc EXCEPT !["startup"] = "mount"]
            /\ UNCHANGED <<baseDir, camDirs, cam>>
    /\ UNCHANGED <<ffmpegInstalled, idx, mounted, reg, alive, newp, waited, launchFailed, monLog, hcVars>>

\* line 85: StaticFiles(directory=...) raises if the directory does not exist
StartupMount ==
    /\ pc["startup"] = "mount"
    /\ IF baseDir
       THEN /\ mounted' = TRUE
            /\ pc' = [pc EXCEPT !["startup"] = "launch_loop"]
            /\ cam' = [cam EXCEPT !["startup"] = 0]
       ELSE /\ pc' = [pc EXCEPT !["startup"] = "aborted"]
            /\ UNCHANGED <<mounted, cam>>
    /\ UNCHANGED <<ffmpegInstalled, baseDir, camDirs, idx, reg, alive, newp, waited, launchFailed, monLog, hcVars>>

\* StartupLaunchLoop with range(1, TOTAL_CAMERAS): the last feed is not launched.
StartupLaunchLoop_SkipsLast ==
    /\ pc["startup"] = "launch_loop"
    /\ IF cam["startup"] < TOTAL_CAMERAS - 1
       THEN /\ cam' = [cam EXCEPT !["startup"] = @ + 1]
            /\ pc' = [pc EXCEPT !["startup"] = "L_enter"]
       ELSE /\ pc' = [pc EXCEPT !["startup"] = "start_monitor"]
            /\ cam' = cam
    /\ UNCHANGED <<ffmpegInstalled, fsVars, reg, alive, newp, waited, launchFailed, monLog, hcVars>>

\* lines 89-90: the next iteration of the launch loop, or its end
\* StartupLaunchLoop with the monitor thread started before the launches
\* instead of after them.
StartupLaunchLoop_MonitorFirst ==
    /\ pc["startup"] = "launch_loop"
    /\ IF cam["startup"] < TOTAL_CAMERAS
       THEN /\ cam' = [cam EXCEPT !["startup"] = @ + 1]
            /\ pc' = [pc EXCEPT !["startup"] = "L_enter",
                                !["monitor"] = IF @ = "notstarted" THEN "sleep" ELSE @]
       ELSE /\ pc' = [pc EXCEPT !["startup"] = "start_monitor"]
            /\ cam' = cam
    /\ UNCHANGED <<ffmpegInstalled, fsVars, reg, alive, newp, waited, launchFailed, monLog, hcVars>>

StartupLaunchLoop ==
    /\ pc["startup"] = "launch_loop"
    /\ IF cam["startup"] < TOTAL_CAMERAS
       THEN /\ cam' = [cam EXCEPT !["startup"] = @ + 1]
            /\ pc' = [pc EXCEPT !["startup"] = "L_enter"]
       ELSE /\ pc' = [pc EXCEPT !["startup"] = "start_monitor"]
            /\ cam' = cam
    /\ UNCHANGED <<ffmpegInstalled, fsVars, reg, alive, newp, waited, launchFailed, monLog, hcVars>>

\* lines 93-95: the monitor thread starts, in its time.sleep
StartMonitor ==
    /\ pc["startup"] = "start_monitor"
    /\ pc' = [pc EXCEPT !["startup"] = "done", !["monitor"] = "sleep"]
    /\ UNCHANGED <<ffmpegInstalled, fsVars, reg, alive, cam, newp, waited, launchFailed, monLog, hcVars>>

StartupNext ==
    \/ CheckFfmpeg
    \/ StartupRmtree
    \/ StartupMakedirs
    \/ StartupMount
    \/ StartupLaunchLoop
    \/ StartMonitor
    \/ Launcher("startup")

----------------------------------------------------------------------------
\* monitor_ffmpeg_processes

\* IsStale with >= for the > of line 64.
IsStale_AtThreshold(f) == idx[f] # Absent /\ idx[f] >= STALE_THRESHOLD_SECONDS

\* IsStale without the os.path.exists test of line 62: a missing file counts
\* as one that is too old.
IsStale_AbsentIsStale(f) == idx[f] = Absent \/ idx[f] > STALE_THRESHOLD_SECONDS

\* lines 61-65: os.path.exists(playlist_path) and (time.time() - mtime) > threshold
IsStale(f) == idx[f] # Absent /\ idx[f] > STALE_THRESHOLD_SECONDS

\* line 67, left operand: process and process.poll() is not None
HasExited(f) == reg[f] # NoHandle /\ ~Live(f, reg[f])

\* NeedsRestart with the sense of the poll() test inverted: `is None` for
\* `is not None`.
NeedsRestart_PollInverted(f) == Live(f, reg[f]) \/ IsStale(f)

\* line 67: the condition under which the tick calls start_ffmpeg_process
NeedsRestart(f) == HasExited(f) \/ IsStale(f)

\* lines 68-71: the warning logged before the restart
LogKind(f) == IF IsStale(f) THEN "STALE" ELSE "DIED"

\* line 55: time.sleep(15) returns and the for loop of line 57 begins
MonitorSleep ==
    /\ pc["monitor"] = "sleep"
    /\ pc' = [pc EXCEPT !["monitor"] = "check"]
    /\ cam' = [cam EXCEPT !["monitor"] = 1]
    /\ monLog' = "none"
    /\ UNCHANGED <<ffmpegInstalled, fsVars, reg, alive, newp, waited, launchFailed, hcVars>>

\* lines 58-72: the body of the for loop for cam_id: the feed is restarted, or
\* the loop goes on to the next cam_id, or ends and line 54 returns to the sleep
MonitorCheck ==
    /\ pc["monitor"] = "check"
    /\ IF NeedsRestart(cam["monitor"])
       THEN /\ monLog' = LogKind(cam["monitor"])
            /\ pc' = [pc EXCEPT !["monitor"] = "L_enter"]
            /\ cam' = cam
       ELSE /\ monLog' = "none"
            /\ pc' = [pc EXCEPT !["monitor"] = ReturnPc("monitor")]
            /\ cam' = [cam EXCEPT !["monitor"] = ReturnCam("monitor")]
    /\ UNCHANGED <<ffmpegInstalled, fsVars, reg, alive, newp, waited,
                   launchFailed, hcVars>>

MonitorNext ==
    \/ MonitorSleep
    \/ MonitorCheck
    \/ Launcher("monitor")

----------------------------------------------------------------------------
\* health_check, lines 103-106. The route is served once startup_event has
\* returned; the comprehension visits the dict's items one by one while the
\* monitor thread runs.

\* The keys of ffmpeg_processes from k on, in insertion order.
KeysFrom(k) == {f \in Feeds : f >= k /\ reg[f] # NoHandle}

HealthStart ==
    /\ pc["startup"] = "done"
    /\ hcPc = "idle"
    /\ hcPc' = "iter"
    /\ hcIdx' = 1
    /\ hcCount' = 0
    /\ UNCHANGED <<ffmpegInstalled, fsVars, reg, alive, pc, cam, newp, waited, launchFailed, monLog>>

\* HealthVisit that does not move on to the next key: the item it has just
\* read is read again.
HealthVisit_NoAdvance ==
    /\ hcPc = "iter"
    /\ KeysFrom(hcIdx) # {}
    /\ LET f == CHOOSE k \in KeysFrom(hcIdx) : \A j \in KeysFrom(hcIdx) : k <= j
       IN  /\ hcCount' = IF Live(f, reg[f]) THEN hcCount + 1 ELSE hcCount
           /\ hcIdx' = f
    /\ UNCHANGED <<ffmpegInstalled, fsVars, reg, alive, pc, cam, newp, waited, launchFailed, monLog, hcPc>>

\* HealthVisit without the filter `if p.poll() is None`: every key is kept.
HealthVisit_CountsAll ==
    /\ hcPc = "iter"
    /\ KeysFrom(hcIdx) # {}
    /\ LET f == CHOOSE k \in KeysFrom(hcIdx) : \A j \in KeysFrom(hcIdx) : k <= j
       IN  /\ hcCount' = hcCount + 1
           /\ hcIdx' = f + 1
    /\ UNCHANGED <<ffmpegInstalled, fsVars, reg, alive, pc, cam, newp, waited, launchFailed, monLog, hcPc>>

\* One item (cid, p) of the comprehension: p.poll() is None keeps cid.
HealthVisit ==
    /\ hcPc = "iter"
    /\ KeysFrom(hcIdx) # {}
    /\ LET f == CHOOSE k \in KeysFrom(hcIdx) : \A j \in KeysFrom(hcIdx) : k <= j
       IN  /\ hcCount' = IF Live(f, reg[f]) THEN hcCount + 1 ELSE hcCount
           /\ hcIdx' = f + 1
    /\ UNCHANGED <<ffmpegInstalled, fsVars, reg, alive, pc, cam, newp, waited, launchFailed, monLog, hcPc>>

\* line 106: "active_streams": len(active_streams)
HealthReturn ==
    /\ hcPc = "iter"
    /\ KeysFrom(hcIdx) = {}
    /\ hcPc' = "idle"
    /\ hcIdx' = 0
    /\ hcCount' = 0
    /\ UNCHANGED <<ffmpegInstalled, fsVars, reg, alive, pc, cam, newp, waited, launchFailed, monLog>>

HealthNext == HealthStart \/ HealthVisit \/ HealthReturn

----------------------------------------------------------------------------
\* The environment: the ffmpeg subprocesses and the clock

\* A subprocess exits: it crashed, lost its source, or was killed.
ProcExit(f, h) ==
    /\ h \in alive[f]
    /\ alive' = [alive EXCEPT ![f] = @ \ {h}]
    /\ UNCHANGED <<ffmpegInstalled, fsVars, reg, pc, cam, newp, waited, launchFailed, monLog, hcVars>>

\* A running ffmpeg rewrites its playlist hls/cam<f>/stream.m3u8.
WriteIndex(f) ==
    /\ alive[f] # {}
    /\ f \in camDirs
    /\ idx' = [idx EXCEPT ![f] = 0]
    /\ UNCHANGED <<ffmpegInstalled, baseDir, camDirs, mounted, reg, alive, pc, cam,
                   newp, waited, launchFailed, monLog, hcVars>>

Blocked == \E t \in Threads : pc[t] = "L_wait"

\* The file of feed f grows older, up to age a. The clock is not a variable:
\* line 64 reads it only to form the age of one file, and the files are
\* written at unrelated moments, so each file ages by itself, through the
\* ages AgePoints that line 64 can tell apart.
IndexAges(f, a) ==
    /\ idx[f] # Absent
    /\ a > idx[f]
    /\ idx' = [idx EXCEPT ![f] = a]
    /\ UNCHANGED <<ffmpegInstalled, baseDir, camDirs, mounted, reg, alive, pc, cam,
                   newp, waited, launchFailed, monLog, hcVars>>

\* Another grace period passes while a launcher is blocked in wait().
WaitElapses ==
    /\ Blocked
    /\ waited' = Min(waited + GracePeriod, GracePeriod + 1)
    /\ UNCHANGED <<ffmpegInstalled, fsVars, reg, alive, pc, cam,
                   newp, launchFailed, monLog, hcVars>>

EnvNext ==
    \/ \E f \in Feeds, h \in Handles : ProcExit(f, h)
    \/ \E f \in Feeds : WriteIndex(f)
    \/ \E f \in Feeds, a \in AgePoints : IndexAges(f, a)
    \/ WaitElapses

----------------------------------------------------------------------------

Next == StartupNext \/ MonitorNext \/ HealthNext \/ EnvNext

Spec == Init /\ [][Next]_vars

\* health_check as a function of the registry state: while a call is in
\* progress nothing else moves, so the call sees one registry state, any that
\* the program reaches.
QuietHealthNext ==
    \/ HealthNext
    \/ hcPc = "idle" /\ (StartupNext \/ MonitorNext \/ EnvNext)

QuietHealthSpec == Init /\ [][QuietHealthNext]_vars

\* The two threads are scheduled as long as they can take a step; nothing
\* obliges a subprocess to exit or to write.
FairSpec == Spec /\ WF_vars(StartupNext) /\ WF_vars(MonitorNext)

----------------------------------------------------------------------------
\* The claims

\* The monitor takes the step of lines 58-72 for feed f.
MonitorChecks(f) ==
    /\ pc["monitor"] = "check"
    /\ cam["monitor"] = f
    /\ <<pc["monitor"], cam["monitor"]>>' # <<pc["monitor"], cam["monitor"]>>

\* The monitor calls start_ffmpeg_process(f) in this step.
MonitorRestarts(f) ==
    /\ MonitorChecks(f)
    /\ pc'["monitor"] = "L_enter"
    /\ cam'["monitor"] = f

\* C1: in every reachable state each feed has at most one live subprocess,
\* counting the subprocesses the registry no longer refers to and the one
\* Popen has created but line 50 has not installed yet.
C1_AtMostOneLive == \A f \in Feeds : LiveCount(f) <= 1

\* A restart of a feed whose index was stale: the replacement is spawned and
\* live, the handle it replaces has exited, line 50 is still to run.
C1_Witness ==
    /\ pc["monitor"] = "L_install"
    /\ monLog = "STALE"
    /\ reg[cam["monitor"]] # NoHandle
    /\ reg[cam["monitor"]] \notin alive[cam["monitor"]]
    /\ newp["monitor"] \in alive[cam["monitor"]]

\* C2: a launch failure of feed K does not keep the other feeds from being
\* launched: once startup_event has ended (returned or raised, the engine
\* being installed), every feed whose launch did not fail has a registry entry.
C2_Isolation ==
    (ffmpegInstalled /\ pc["startup"] \in {"done", "aborted"})
        => \A j \in Feeds \ launchFailed : reg[j] # NoHandle

\* C3: a launch that fails during a tick never ends the monitor loop: the
\* thread never leaves monitor_ffmpeg_processes.
C3_MonitorNeverReturns == pc["monitor"] # "crashed"

\* C4: a feed whose launch failed is launched again: start_ffmpeg_process is
\* called for it again, by the monitor's next tick.
C4_FailedLaunchRetried ==
    \A f \in Feeds :
        (f \in launchFailed) ~> (pc["monitor"] = "L_enter" /\ cam["monitor"] = f)

\* C5: when the monitor checks a feed whose handle has exited, that step
\* calls start_ffmpeg_process for it, whether the index file is absent, fresh
\* or stale; hence, the monitor thread being scheduled fairly, a feed whose
\* handle has exited once the monitor has been started is eventually
\* relaunched (Popen starts its replacement).
C5_ExitedIsRestarted ==
    /\ [][\A f \in Feeds : (MonitorChecks(f) /\ HasExited(f)) => MonitorRestarts(f)]_vars
    /\ \A f \in Feeds :
          (HasExited(f) /\ pc["startup"] = "done")
              ~> (pc["monitor"] = "L_install" /\ cam["monitor"] = f)

\* The first half of C5 alone: the step that checks an exited feed calls the
\* launcher for it, whatever the index file.
C5_CheckOfExitedRestarts ==
    [][\A f \in Feeds : (MonitorChecks(f) /\ HasExited(f)) => MonitorRestarts(f)]_vars

\* C6: when the monitor checks a feed whose subprocess is live, it calls
\* start_ffmpeg_process for that feed if the index file's age is threshold + 1
\* and does not if the age is threshold - 1 or the threshold; and a feed is
\* launched at most once in a tick: the monitor enters the launcher only from
\* the check of that feed, and the checks of one tick go through the feeds in
\* increasing order, starting at 1 after the sleep.
C6_StaleBoundary ==
    [][ /\ \A f \in Feeds :
              (MonitorChecks(f) /\ Live(f, reg[f])) =>
                  /\ idx[f] = STALE_THRESHOLD_SECONDS + 1 => MonitorRestarts(f)
                  /\ idx[f] \in {STALE_THRESHOLD_SECONDS - 1, STALE_THRESHOLD_SECONDS}
                        => ~MonitorRestarts(f)
        /\ (pc'["monitor"] = "L_enter" /\ pc["monitor"] # "L_enter")
              => MonitorRestarts(cam["monitor"])
        /\ (pc'["monitor"] = "check"
              /\ <<pc["monitor"], cam["monitor"]>>' # <<pc["monitor"], cam["monitor"]>>)
              => \/ pc["monitor"] = "sleep" /\ cam'["monitor"] = 1
                 \/ pc["monitor"] # "sleep" /\ cam'["monitor"] = cam["monitor"] + 1
      ]_vars

\* The monitor restarts feed 2, live with an index file of age threshold + 1,
\* having left alone feed 1, live with an index file at the threshold.
C6_Witness ==
    /\ pc["monitor"] = "L_enter"
    /\ cam["monitor"] = 2
    /\ monLog = "STALE"
    /\ idx[2] = STALE_THRESHOLD_SECONDS + 1
    /\ Live(2, reg[2])
    /\ idx[1] = STALE_THRESHOLD_SECONDS
    /\ reg[1] = 1
    /\ Live(1, reg[1])

\* C7: a feed whose index file does not exist is never classified STALE, and
\* a check of a feed with a live subprocess and no index file does not
\* restart it.
C7_AbsentIsNotStale ==
    [][\A f \in Feeds :
          (MonitorChecks(f) /\ idx[f] = Absent) =>
              /\ monLog' # "STALE"
              /\ Live(f, reg[f]) => ~MonitorRestarts(f)]_vars

\* The monitor has gone past feed 1, whose first subprocess is live and has
\* written no index file yet, and is at feed 2.
C7_Witness ==
    /\ pc["monitor"] = "check"
    /\ cam["monitor"] = 2
    /\ idx[1] = Absent
    /\ reg[1] = 1
    /\ Live(1, reg[1])

\* C8: every launch resets the feed's output directory before the new
\* subprocess is started: in the step that starts a subprocess for a feed, no
\* index file of the feed exists.
C8_LaunchResetsDirectory ==
    [][\A f \in Feeds : (alive'[f] \ alive[f] # {}) => idx'[f] = Absent]_vars

\* C9: the launcher's wait for the killed subprocess is bounded by the grace
\* period: it is never blocked in wait() for longer.
C9_BoundedWait == waited <= GracePeriod

\* C10: whatever the monitor thread is doing, the number health_check has
\* counted is at least 0, at most the number of keys it has visited, each of
\* them once, and so at most TOTAL_CAMERAS; this holds of the value it returns.
C10_HealthCountInRange ==
    hcPc = "iter" =>
        /\ 0 <= hcCount
        /\ hcCount <= Cardinality({f \in Feeds : f < hcIdx /\ reg[f] # NoHandle})
        /\ hcCount <= TOTAL_CAMERAS

\* health_check is about to return TOTAL_CAMERAS while the monitor is between
\* the Popen and the registry write of a restart.
C10_Witness ==
    /\ hcPc = "iter"
    /\ KeysFrom(hcIdx) = {}
    /\ hcCount = TOTAL_CAMERAS
    /\ pc["monitor"] = "L_install"

\* The value health_check returns as active_streams: it is at line 106.
HealthReturns(n) == hcPc = "iter" /\ KeysFrom(hcIdx) = {} /\ hcCount = n

\* The registry entries whose handle has not exited.
LiveEntries == {f \in Feeds : Live(f, reg[f])}

LauncherPcs == {"L_enter", "L_wait", "L_popen", "L_install"}

\* Thread t takes a step of start_ffmpeg_process.
LauncherSteps(t) == pc[t] \in LauncherPcs /\ pc'[t] # pc[t]

\* C12: a launch of feed k leaves every other feed untouched: each step of
\* start_ffmpeg_process(k) keeps the registry entry, the subprocesses and the
\* index file of every feed j # k, and stays with feed k until it returns;
\* a registry entry changes only in the install step of a launch of that
\* feed; and the monitor launches a feed only if its own check found it
\* exited or stale, so a tick in which only feed k is DEAD or STALE leaves
\* the handles of the others unchanged.
C12_RestartLeavesOthers ==
    [][ /\ \A t \in Threads :
              LauncherSteps(t) =>
                  /\ \A j \in Feeds \ {cam[t]} :
                        reg'[j] = reg[j] /\ alive'[j] = alive[j] /\ idx'[j] = idx[j]
                  /\ pc'[t] \in LauncherPcs => cam'[t] = cam[t]
        /\ \A j \in Feeds :
              reg'[j] # reg[j] =>
                  \E t \in Threads : pc[t] = "L_install" /\ cam[t] = j /\ pc'[t] # pc[t]
        /\ \A j \in Feeds : MonitorRestarts(j) => NeedsRestart(j)
      ]_vars

\* Feed 2 has been restarted (its entry is the second handle) and feed 1 still
\* runs the subprocess startup_event gave it.
C12_Witness ==
    /\ reg[2] = 2
    /\ Live(2, reg[2])
    /\ reg[1] = 1
    /\ Live(1, reg[1])
    /\ pc["monitor"] = "sleep"

\* The keys of ffmpeg_processes.
RegistryKeys == {f \in DOMAIN reg : reg[f] # NoHandle}

\* C13: when startup_event has completed (which it does only if no launch
\* raised), the keys of the registry are exactly the feeds 1..TOTAL_CAMERAS,
\* one entry each; and an entry is only ever written by the install step of a
\* launch of that feed, with the handle Popen returned to that launch, which
\* was live when Popen returned it.
C13_StartupFillsRegistry ==
    /\ [](pc["startup"] = "done" =>
            /\ RegistryKeys = 1..TOTAL_CAMERAS
            /\ \A f \in RegistryKeys : reg[f] \in Handles)
    /\ [][\A f \in Feeds :
             reg'[f] # reg[f] =>
                 \E t \in Threads :
                     /\ pc[t] = "L_install" /\ cam[t] = f
                     /\ reg'[f] = newp[t] /\ newp[t] \in Handles]_vars
    /\ [][\A t \in Threads :
             (pc[t] = "L_popen" /\ pc'[t] = "L_install") =>
                 newp'[t] \in alive'[cam[t]]]_vars

\* startup_event has just returned: every feed holds its first handle, live,
\* and the monitor is in its first sleep.
C13_Witness ==
    /\ pc["startup"] = "done"
    /\ pc["monitor"] = "sleep"
    /\ launchFailed = {}
    /\ \A f \in Feeds : reg[f] = 1 /\ Live(f, reg[f])

\* C14: if the engine is missing, startup_event raises in check_ffmpeg before
\* any effect: no directory or index file is created or removed, nothing is
\* mounted, no subprocess is started, the registry stays empty and the
\* monitor thread is never started.
C14_MissingEngineNoEffect ==
    /\ [](~ffmpegInstalled =>
            /\ pc["startup"] \in {"check_ffmpeg", "aborted"}
            /\ pc["monitor"] = "notstarted"
            /\ RegistryKeys = {}
            /\ \A f \in Feeds : alive[f] = {}
            /\ ~mounted)
    /\ [][~ffmpegInstalled => UNCHANGED <<baseDir, camDirs, idx>>]_vars

\* startup_event has raised for want of the engine, and the directories of an
\* earlier run are still there.
C14_Witness ==
    /\ ~ffmpegInstalled
    /\ pc["startup"] = "aborted"
    /\ baseDir
    /\ camDirs = Feeds

\* C15: the monitor calls start_ffmpeg_process for a feed only in the step
\* that checks that feed, and only if at that moment the feed's handle has
\* exited or its index file exists and is older than the threshold; the check
\* of a feed with a live handle and an index file that is absent or not older
\* than the threshold goes on to the next feed without entering the launcher.
C15_RestartOnlyIfDeadOrStale ==
    [][ /\ (pc'["monitor"] = "L_enter" /\ pc["monitor"] # "L_enter")
              => /\ pc["monitor"] = "check"
                 /\ cam'["monitor"] = cam["monitor"]
                 /\ LET f == cam["monitor"]
                    IN  \/ reg[f] # NoHandle /\ reg[f] \notin alive[f]
                        \/ idx[f] # Absent /\ idx[f] > STALE_THRESHOLD_SECONDS
        /\ \A f \in Feeds :
              ( /\ MonitorChecks(f)
                /\ reg[f] \in alive[f]
                /\ idx[f] = Absent \/ idx[f] <= STALE_THRESHOLD_SECONDS )
              => /\ pc'["monitor"] \notin LauncherPcs
                 /\ reg' = reg
                 /\ alive' = alive
      ]_vars

\* The monitor has gone past feed 1, whose first subprocess is live and whose
\* index file was just written, and is at feed 2.
C15_Witness ==
    /\ pc["monitor"] = "check"
    /\ cam["monitor"] = 2
    /\ monLog = "none"
    /\ idx[1] = 0
    /\ reg[1] = 1
    /\ Live(1, reg[1])

\* C16: the monitor logs STALE for a feed only when the feed's subprocess is
\* still running and its index file is older than the threshold, and logs
\* DIED for a feed whose subprocess has exited.
C16_LogClassesDistinct ==
    [][\A f \in Feeds :
          MonitorChecks(f) =>
              /\ monLog' = "STALE" => (Live(f, reg[f]) /\ IsStale(f))
              /\ HasExited(f) => monLog' = "DIED"]_vars

\* C17: when start_ffmpeg_process is entered for a feed that has no entry or
\* whose handle has exited, it issues no kill and no wait: it goes straight to
\* Popen, which (unless it raises) starts a new subprocess, live, with a
\* handle other than the entry's, and the next step installs that handle as
\* the feed's entry. A kill is issued only to a handle that is live.
C17_IdempotentTermination ==
    [][\A t \in Threads :
          /\ (pc[t] = "L_enter" /\ pc'[t] # pc[t]) =>
                IF reg[cam[t]] # NoHandle /\ reg[cam[t]] \in alive[cam[t]]
                THEN pc'[t] = "L_wait"
                ELSE pc'[t] = "L_popen" /\ alive' = alive /\ reg' = reg
          /\ (pc[t] = "L_popen" /\ pc'[t] # pc[t]) =>
                \/ pc'[t] = RaisedPc(t) /\ alive' = alive /\ reg' = reg
                \/ /\ pc'[t] = "L_install"
                   /\ newp'[t] \in alive'[cam[t]] \ alive[cam[t]]
                   /\ newp'[t] # reg[cam[t]]
          /\ (pc[t] = "L_install" /\ pc'[t] # pc[t]) =>
                reg'[cam[t]] = newp[t]]_vars

\* The launcher, entered by the monitor for a feed whose subprocess had died,
\* is at Popen without having killed or waited.
C17_Witness ==
    /\ pc["monitor"] = "L_popen"
    /\ monLog = "DIED"
    /\ HasExited(cam["monitor"])
    /\ waited = 0

\* C18: whenever Popen starts a subprocess for a feed, at startup or in the
\* monitor, the directory hls/cam<feed> exists; the route is mounted only
\* once every per-feed directory exists; a thread is in the launcher, and a
\* subprocess or a registry entry exists, only once the route is mounted; and
\* the monitor thread exists only once startup_event has made its last launch.
C18_DirectoryBeforeLaunch ==
    /\ [][\A f \in Feeds : (alive'[f] \ alive[f] # {}) => f \in camDirs]_vars
    /\ [](mounted => (baseDir /\ camDirs = Feeds))
    /\ []((\/ \E t \in Threads : pc[t] \in LauncherPcs
           \/ \E f \in Feeds : alive[f] # {} \/ reg[f] # NoHandle) => mounted)
    /\ [](pc["monitor"] # "notstarted" =>
            (pc["startup"] = "done" /\ RegistryKeys = Feeds))

\* The monitor has just started a replacement subprocess for a feed: the
\* feed's directory exists and the route is mounted.
C18_Witness ==
    /\ pc["monitor"] = "L_install"
    /\ newp["monitor"] \in alive[cam["monitor"]]
    /\ cam["monitor"] \in camDirs
    /\ mounted

\* C19: once the monitor runs, a restart does not touch the index file: no
\* step of start_ffmpeg_process changes any index file, and a file older
\* than the threshold stays so until a subprocess of its feed rewrites it.
\* So each time the monitor's loop reaches a feed whose file is still too
\* old, it logs STALE and calls the launcher for that feed again; the
\* launcher kills the feed's registered subprocess if it is live and waits
\* until it is gone, and the subprocess it then spawns replaces the registry
\* entry.
C19_StaleRestartRepeats ==
    [][pc["monitor"] # "notstarted" =>
         /\ LauncherSteps("monitor") => idx' = idx
         /\ \A f \in Feeds :
               /\ (IsStale(f) /\ idx'[f] # idx[f]) =>
                     (idx'[f] = 0 /\ alive[f] # {} /\ pc' = pc)
               /\ (MonitorChecks(f) /\ IsStale(f)) =>
                     (MonitorRestarts(f) /\ monLog' = "STALE")
               /\ (/\ monLog = "STALE"
                   /\ cam["monitor"] = f
                   /\ LauncherSteps("monitor")) =>
                     /\ (pc["monitor"] = "L_enter" /\ Live(f, reg[f])) =>
                           pc'["monitor"] = "L_wait"
                     /\ pc["monitor"] = "L_wait" =>
                           (~Live(f, reg[f]) /\ pc'["monitor"] = "L_popen")
                     /\ pc["monitor"] = "L_install" =>
                           (reg'[f] = newp["monitor"] /\ reg'[f] # reg[f])]_vars

\* The monitor, restarting feed 1 as STALE, has killed a subprocess that was
\* itself a replacement and has spawned the next one, which the registry does
\* not hold yet; the index file is as old as before.
C19_Witness ==
    /\ pc["monitor"] = "L_install"
    /\ cam["monitor"] = 1
    /\ monLog = "STALE"
    /\ IsStale(1)
    /\ reg[1] = 2
    /\ ~Live(1, reg[1])
    /\ Live(1, newp["monitor"])

\* C20: the two threads are never both inside start_ffmpeg_process; the
\* monitor thread exists only once startup_event has finished, so every
\* startup launch is complete before it runs; while a thread is inside the
\* launcher no other step changes the registry or starts a subprocess, and
\* the launcher stays with one feed from entry to return; the registry is
\* written only by the install step of the one thread then in the launcher,
\* and health_check never writes it.
C20_SingleLauncher ==
    /\ [](~(pc["startup"] \in LauncherPcs /\ pc["monitor"] \in LauncherPcs))
    /\ [](pc["monitor"] # "notstarted" => pc["startup"] = "done")
    /\ [](pc["startup"] \in LauncherPcs \cup {"launch_loop", "start_monitor"} =>
             pc["monitor"] = "notstarted")
    /\ [][/\ reg' # reg =>
               \E t \in Threads :
                  /\ pc[t] = "L_install" /\ pc'[t] # pc[t]
                  /\ \A u \in Threads \ {t} : pc[u] \notin LauncherPcs /\ pc'[u] = pc[u]
                  /\ \A f \in Feeds \ {cam[t]} : reg'[f] = reg[f]
          /\ (\E f \in Feeds : alive'[f] \ alive[f] # {}) =>
               \E t \in Threads : pc[t] = "L_popen" /\ pc'[t] = "L_install"
          /\ \A t \in Threads :
               (pc[t] \in LauncherPcs /\ pc'[t] \in LauncherPcs) => cam'[t] = cam[t]
          /\ (hcPc' # hcPc \/ hcIdx' # hcIdx \/ hcCount' # hcCount) =>
               (reg' = reg /\ alive' = alive /\ pc' = pc)]_vars

\* The monitor is inside the launcher, about to spawn, after all startup
\* launches have returned, while a health_check is reading the registry.
C20_Witness ==
    /\ pc["monitor"] = "L_popen"
    /\ pc["startup"] = "done"
    /\ RegistryKeys = Feeds
    /\ hcPc # "idle"

====
